---- MODULE Spec2Model ----
(***************************************************************************)
(* colback: a derive macro (colback-derive) that turns a struct with named *)
(* fields into a validated view over a polars DataFrame, and the generated *)
(* view / get / iter code that reads rows through that view.               *)
(*                                                                         *)
(* The model follows one struct declaration through                        *)
(*   derive_colback_view  (macro expansion: abort or generated code)       *)
(*   rustc                (the generated code is compiled)                 *)
(*   view(df)             (generated ColbackView::view)                    *)
(*   get(idx) / iter()    (generated inherent methods of the View)         *)
(***************************************************************************)
EXTENDS Integers, Sequences, FiniteSets, TLC

(* ------------------------------------------------------------------ *)
(* Bounds                                                              *)
(* ------------------------------------------------------------------ *)
MaxFields == 2
MaxHeight == 2

(* Option<T> values: None is the empty tuple, Some(x) the one-element tuple. *)
None == <<>>
Some(x) == <<x>>

(* Field identifiers by position in the struct (Rust requires them distinct). *)
Idents == <<"row_a", "row_b", "row_c", "row_d">>

(* The default expression used by declarations that carry one. *)
DefaultExpr == 1

(* ------------------------------------------------------------------ *)
(* type_helpers.rs                                                     *)
(* ------------------------------------------------------------------ *)

(* option_inner: (is_option, inner type) of a declared type. *)
option_inner(ty) == <<ty.option, ty.inner>>

(* The rows of the map_prim! table, one TypeMap per supported primitive. *)
MapPrim ==
  [ u8     |-> [expected_dtype |-> "UInt8",   accessor |-> "u8",   chunked_ty |-> "UInt8Chunked"],
    u16    |-> [expected_dtype |-> "UInt16",  accessor |-> "u16",  chunked_ty |-> "UInt16Chunked"],
    u32    |-> [expected_dtype |-> "UInt32",  accessor |-> "u32",  chunked_ty |-> "UInt32Chunked"],
    u64    |-> [expected_dtype |-> "UInt64",  accessor |-> "u64",  chunked_ty |-> "UInt63Chunked"],
    i32    |-> [expected_dtype |-> "Int32",   accessor |-> "i32",  chunked_ty |-> "Int32Chunked"],
    i64    |-> [expected_dtype |-> "Int64",   accessor |-> "i64",  chunked_ty |-> "Int64Chunked"],
    f32    |-> [expected_dtype |-> "Float32", accessor |-> "f32",  chunked_ty |-> "Float32Chunked"],
    f64    |-> [expected_dtype |-> "Float64", accessor |-> "f64",  chunked_ty |-> "Float64Chunked"],
    bool   |-> [expected_dtype |-> "Boolean", accessor |-> "bool", chunked_ty |-> "BooleanChunked"],
    String |-> [expected_dtype |-> "String",  accessor |-> "str",  chunked_ty |-> "StringChunked"] ]

(* map_type: Some(TypeMap) for a primitive of the table, None otherwise. *)
map_type(inner) == IF inner \in DOMAIN MapPrim THEN Some(MapPrim[inner]) ELSE None

(* The chunked-array aliases ::polars::prelude exports for the dtypes of the *)
(* table: polars names each alias after its DataType, <DataType>Chunked.     *)
PolarsPrelude ==
  { "UInt8Chunked", "UInt16Chunked", "UInt32Chunked", "UInt64Chunked",
    "Int32Chunked", "Int64Chunked", "Float32Chunked", "Float64Chunked",
    "BooleanChunked", "StringChunked" }

(* The dtype a Series accessor (u32(), bool(), str(), ...) accepts. *)
AccessorDtype ==
  [ u8 |-> "UInt8", u16 |-> "UInt16", u32 |-> "UInt32", u64 |-> "UInt64",
    i32 |-> "Int32", i64 |-> "Int64", f32 |-> "Float32", f64 |-> "Float64",
    bool |-> "Boolean", str |-> "String" ]

(* ------------------------------------------------------------------ *)
(* derive_colback_view: parsing and validation                         *)
(* ------------------------------------------------------------------ *)

(* col_name = opts.name.unwrap_or(ident) *)
ColName(f) == IF f.name = None THEN f.ident ELSE f.name[1]

(* policy = null_policy.as_deref().unwrap_or("error") *)
Policy(f) == IF f.null = None THEN "error" ELSE f.null[1]

IsOption(f) == option_inner(f.ty)[1]

InnerTy(f) == option_inner(f.ty)[2]

(* One iteration of the loop over the parsed fields: None when the field   *)
(* passes, Some(message) when the macro aborts on it.                      *)
FieldAbort(f) ==
  IF map_type(InnerTy(f)) = None
    THEN Some("unsupported field type for ColbackView; add a mapping for this type")
  ELSE IF Policy(f) = "option" /\ ~IsOption(f)
    THEN Some("null=\"option\" requires the field type to be Option<T>")
  ELSE IF Policy(f) = "error" /\ IsOption(f)
    THEN Some("Option<T> fields must use null='option'")
  ELSE IF Policy(f) = "default" /\ f.default = None
    THEN Some("null='default' requires #[polars(default = ...)] to be set")
  ELSE None

(* The macro walks the fields in declaration order and aborts on the first *)
(* one that fails; otherwise it expands to the generated code.             *)
RECURSIVE ExpandFrom(_, _)
ExpandFrom(sch, k) ==
  IF k > Len(sch) THEN [tag |-> "tokens", ident |-> "", msg |-> ""]
  ELSE IF FieldAbort(sch[k]) # None
    THEN [tag |-> "abort", ident |-> sch[k].ident, msg |-> FieldAbort(sch[k])[1]]
  ELSE ExpandFrom(sch, k + 1)

derive_colback_view(sch) == ExpandFrom(sch, 1)

(* The generated View struct has one member `ident: &'a <chunked_ty>` per   *)
(* field; the expansion compiles only when each of those types exists.     *)
ViewMemberTy(f) == map_type(InnerTy(f))[1].chunked_ty

Compiles(sch) == \A k \in 1..Len(sch) : ViewMemberTy(sch[k]) \in PolarsPrelude

(* ------------------------------------------------------------------ *)
(* colback-core: ColbackError and results                              *)
(* ------------------------------------------------------------------ *)
MissingColumn(c) == [kind |-> "MissingColumn", col |-> c]

WrongDtype(c, e, a) == [kind |-> "WrongDtype", col |-> c, expected |-> e, actual |-> a]

InvalidNull(c, i) == [kind |-> "InvalidNull", col |-> c, idx |-> i]

Ok(v) == [tag |-> "Ok", val |-> v]

Err(e) == [tag |-> "Err", val |-> e]

(* A panic unwinds out of the call: no value is returned. *)
Panic == [tag |-> "Panic", val |-> None]

NoCall == [tag |-> "NoCall", val |-> None]

(* ------------------------------------------------------------------ *)
(* Generated code: ColbackView::view                                   *)
(* ------------------------------------------------------------------ *)

(* df.column(name): the column, or None when the frame has none of that name. *)
DfColumn(d, name) == IF name \in DOMAIN d.cols THEN d.cols[name] ELSE None

(* ExtractStmt with the dtype check dropped: a column of another storage  *)
(* type is read through as if it had been cast.                          *)
ExtractStmt_Cast(f, d) ==
  LET col == DfColumn(d, ColName(f))
  IN  IF col = None THEN Err(MissingColumn(ColName(f)))
      ELSE Ok(col[1].cells)

(* One extract statement: column lookup, dtype check, typed accessor. *)
ExtractStmt(f, d) ==
  LET col == DfColumn(d, ColName(f))
      map == map_type(InnerTy(f))[1]
  IN  IF col = None THEN Err(MissingColumn(ColName(f)))
      ELSE IF col[1].dtype # map.expected_dtype
        THEN Err(WrongDtype(ColName(f), map.expected_dtype, col[1].dtype))
      ELSE IF AccessorDtype[map.accessor] # col[1].dtype THEN Panic
      ELSE Ok(col[1].cells)

(* ExtractFrom that runs every extract statement and reports the error of *)
(* the last failing field instead of leaving at the first.               *)
RECURSIVE ExtractFrom_LastError(_, _, _, _)
ExtractFrom_LastError(sch, d, k, chunks) ==
  IF k > Len(sch) THEN Ok([df |-> d, chunks |-> chunks])
  ELSE LET r == ExtractStmt(sch[k], d)
           rest == ExtractFrom_LastError(sch, d, k + 1,
                                         IF r.tag = "Ok" THEN Append(chunks, r.val) ELSE chunks)
       IN  IF rest.tag # "Ok" THEN rest
           ELSE IF r.tag # "Ok" THEN r
           ELSE rest

(* The extract statements run in field order; `?` and `return Err` leave   *)
(* view at the first failure, otherwise the View is assembled.             *)
RECURSIVE ExtractFrom(_, _, _, _)
ExtractFrom(sch, d, k, chunks) ==
  IF k > Len(sch) THEN Ok([df |-> d, chunks |-> chunks])
  ELSE LET r == ExtractStmt(sch[k], d)
       IN  IF r.tag # "Ok" THEN r
           ELSE ExtractFrom(sch, d, k + 1, Append(chunks, r.val))

view(sch, d) == ExtractFrom(sch, d, 1, <<>>)

(* ------------------------------------------------------------------ *)
(* Generated code: len / get / iter                                    *)
(* ------------------------------------------------------------------ *)

(* len(): self.df.height() *)
len(v) == v.df.height

(* ChunkGet that answers None past the end instead of panicking. *)
ChunkGet_NoneOutOfBounds(chunk, idx) ==
  IF idx >= Len(chunk) THEN [tag |-> "Ok", val |-> None] ELSE [tag |-> "Ok", val |-> chunk[idx + 1]]

(* get_value_expr: self.<ident>.get(idx) on the typed chunked array. polars' *)
(* ChunkedArray::get asserts the index is in bounds and panics otherwise;    *)
(* in bounds it returns None for a null cell and Some(value) else.          *)
ChunkGet(chunk, idx) == IF idx >= Len(chunk) THEN Panic ELSE Ok(chunk[idx + 1])

(* row_members: a RowRef member is declared Option<row_value_ty> for an *)
(* Option<T> field and row_value_ty otherwise.                          *)
OptionMember(o) == [ty |-> "Option", v |-> o]

PlainMember(x) == [ty |-> "T", v |-> x]

(* RowBuild without the is_option branch: an Option<T> field is built like *)
(* any other, by its policy.                                              *)
RowBuild_NoOptionBranch(f, chunk, idx) ==
  LET raw == ChunkGet(chunk, idx)
  IN  IF raw.tag = "Panic" THEN Panic
      ELSE IF Policy(f) = "default"
        THEN Ok(PlainMember(IF raw.val = None THEN f.default[1] ELSE raw.val[1]))
      ELSE IF raw.val = None THEN Err(InvalidNull(ColName(f), idx))
      ELSE Ok(PlainMember(raw.val[1]))

(* One row_build statement, chosen at expansion time from is_option/policy. *)
RowBuild(f, chunk, idx) ==
  LET raw == ChunkGet(chunk, idx)
  IN  IF raw.tag = "Panic" THEN Panic
      ELSE IF IsOption(f) THEN Ok(OptionMember(raw.val))
      ELSE IF Policy(f) = "default"
        THEN Ok(PlainMember(IF raw.val = None THEN f.default[1] ELSE raw.val[1]))
      ELSE IF raw.val = None THEN Err(InvalidNull(ColName(f), idx))
      ELSE Ok(PlainMember(raw.val[1]))

(* GetFrom that builds every field and reports the error of the last      *)
(* failing one instead of leaving at the first.                           *)
RECURSIVE GetFrom_LastError(_, _, _, _, _)
GetFrom_LastError(sch, v, idx, k, row) ==
  IF k > Len(sch) THEN Ok(row)
  ELSE LET r == RowBuild(sch[k], v.chunks[k], idx)
           rest == GetFrom_LastError(sch, v, idx, k + 1,
                                     IF r.tag = "Ok" THEN Append(row, r.val) ELSE row)
       IN  IF rest.tag # "Ok" THEN rest
           ELSE IF r.tag # "Ok" THEN r
           ELSE rest

(* The row_build statements run in field order; `?` leaves get at the first *)
(* failing field, otherwise the RowRef is assembled from all the locals.   *)
RECURSIVE GetFrom(_, _, _, _, _)
GetFrom(sch, v, idx, k, row) ==
  IF k > Len(sch) THEN Ok(row)
  ELSE LET r == RowBuild(sch[k], v.chunks[k], idx)
       IN  IF r.tag # "Ok" THEN r
           ELSE GetFrom(sch, v, idx, k + 1, Append(row, r.val))

get(sch, v, idx) == GetFrom(sch, v, idx, 1, <<>>)

(* iter whose range starts at 1. *)
iter_FromOne(v) == [start |-> 1, end |-> len(v), ended |-> FALSE]

(* iter(): (0..self.len()).map(|i| self.get(i)), a fresh range per call. *)
iter(v) == [start |-> 0, end |-> len(v), ended |-> FALSE]

(* ------------------------------------------------------------------ *)
(* Inputs: struct declarations and data frames                         *)
(* ------------------------------------------------------------------ *)

(* A field as written by the author: its type, and the #[polars(...)] options. *)
Decl(option, inner, name, null, default) ==
  [ty |-> [option |-> option, inner |-> inner], name |-> name, null |-> null, default |-> default]

(* Every combination of type, Option wrapper, null option and default, for *)
(* the runs that only expand and compile the derive.                      *)
DeriveDecls ==
  { Decl(o, t, None, n, d) :
      o \in BOOLEAN, t \in {"u32", "u64", "i8"},
      n \in {None, Some("error"), Some("option"), Some("default"), Some("bogus")},
      d \in {None, Some(DefaultExpr)} }

(* The declarations the runs that go on to view / get / iter draw from. *)
ViewDecls ==
  { Decl(FALSE, "u32", None, None, None),
    Decl(FALSE, "bool", Some(Idents[1]), Some("error"), None),
    Decl(TRUE, "u32", None, Some("option"), None),
    Decl(FALSE, "u32", None, Some("default"), Some(DefaultExpr)),
    Decl(TRUE, "bool", None, Some("default"), Some(DefaultExpr)),
    Decl(FALSE, "u64", None, None, None),
    Decl(FALSE, "u32", None, Some("option"), None) }

(* The declarations the runs that iterate draw from. *)
IterDecls ==
  { Decl(FALSE, "u32", None, None, None),
    Decl(TRUE, "u32", None, Some("option"), None),
    Decl(FALSE, "u32", Some(Idents[1]), Some("default"), Some(DefaultExpr)) }

(* A struct with named fields: field k carries the k-th identifier. *)
Structs(decls) ==
  UNION { { [k \in 1..n |-> [ident |-> Idents[k]] @@ s[k]] : s \in [1..n -> decls] } :
          n \in 0..MaxFields }

ColNames == { Idents[k] : k \in 1..MaxFields }

TableDtypes == {"UInt32", "Boolean"}

ColIndex(c) == CHOOSE k \in 1..Len(Idents) : Idents[k] = c

(* The value stored at row r (0-based) of column c when the cell is not null: *)
(* distinct for every cell, and distinct from DefaultExpr.                   *)
CellValue(c, r) == 10 * ColIndex(c) + r

(* Data frames of height h: every column is absent, or has a dtype and h cells, *)
(* each null or holding its value.                                            *)
Frames(h) ==
  { [height |-> h,
     cols |-> [c \in ColNames |->
                 IF lay[c] = None THEN None
                 ELSE Some([dtype |-> lay[c][1].dtype,
                            cells |-> [r \in 1..h |->
                                         IF lay[c][1].nulls[r] THEN None
                                         ELSE Some(CellValue(c, r - 1))]])]] :
    lay \in [ColNames -> {None} \cup
               { Some([dtype |-> t, nulls |-> m]) : t \in TableDtypes, m \in [1..h -> BOOLEAN] }] }

DataFrames == UNION { Frames(h) : h \in 0..MaxHeight }

(* Indexes passed to get: every row of the tallest frame, and one past it. *)
Indexes == 0..MaxHeight

(* ------------------------------------------------------------------ *)
(* State                                                               *)
(* ------------------------------------------------------------------ *)
VARIABLES
  schema,    \* the struct the derive is applied to
  pc,        \* "source" | "aborted" | "expanded" | "rejected" | "built" | "viewed"
  expanded,  \* what derive_colback_view produced
  df,        \* the frame passed to view
  viewRes,   \* the result of view(df)
  ret,       \* the last call of get: its index and result
  its,       \* the iterators obtained from iter(), by caller slot
  outs       \* what each iterator has yielded so far

vars == <<schema, pc, expanded, df, viewRes, ret, its, outs>>

Slots == {1, 2}

NoFrame == [height |-> 0, cols |-> [c \in ColNames |-> None]]

InitWith(decls) ==
  /\ schema \in Structs(decls)
  /\ pc = "source"
  /\ expanded = [tag |-> "none", ident |-> "", msg |-> ""]
  /\ df = NoFrame
  /\ viewRes = NoCall
  /\ ret = [idx |-> 0, res |-> NoCall]
  /\ its = [k \in Slots |-> None]
  /\ outs = [k \in Slots |-> <<>>]

Init == InitWith(ViewDecls)

InitDerive == InitWith(DeriveDecls)

InitIter == InitWith(IterDecls)

(* ------------------------------------------------------------------ *)
(* Actions                                                             *)
(* ------------------------------------------------------------------ *)

(* #[derive(ColbackView)] is expanded. *)
Derive ==
  /\ pc = "source"
  /\ expanded' = derive_colback_view(schema)
  /\ pc' = IF expanded'.tag = "abort" THEN "aborted" ELSE "expanded"
  /\ UNCHANGED <<schema, df, viewRes, ret, its, outs>>

(* The expansion is compiled. *)
Rustc ==
  /\ pc = "expanded"
  /\ pc' = IF Compiles(schema) THEN "built" ELSE "rejected"
  /\ UNCHANGED <<schema, expanded, df, viewRes, ret, its, outs>>

(* The caller builds a view over a frame. *)
CallView ==
  /\ pc = "built"
  /\ \E d \in DataFrames :
       /\ df' = d
       /\ viewRes' = view(schema, d)
  /\ pc' = "viewed"
  /\ UNCHANGED <<schema, expanded, ret, its, outs>>

(* The caller reads one row. *)
CallGet ==
  /\ pc = "viewed"
  /\ viewRes.tag = "Ok"
  /\ \E idx \in Indexes : ret' = [idx |-> idx, res |-> get(schema, viewRes.val, idx)]
  /\ UNCHANGED <<schema, pc, expanded, df, viewRes, its, outs>>

(* The caller obtains an iterator; it is kept in the first free slot. *)
CallIter ==
  /\ pc = "viewed"
  /\ viewRes.tag = "Ok"
  /\ \E k \in Slots :
       /\ its[k] = None
       /\ \A j \in Slots : j < k => its[j] # None
       /\ its' = [its EXCEPT ![k] = Some(iter(viewRes.val))]
  /\ UNCHANGED <<schema, pc, expanded, df, viewRes, ret, outs>>

(* Iterator::next on Map<Range<usize>, _>: the range yields start and      *)
(* advances while start < end, the closure calls get on what it yields.   *)
IterNext ==
  /\ pc = "viewed"
  /\ \E k \in Slots :
       /\ its[k] # None
       /\ ~its[k][1].ended
       /\ LET it == its[k][1]
          IN  IF it.start < it.end
                THEN /\ its' = [its EXCEPT ![k] = Some([it EXCEPT !.start = it.start + 1])]
                     /\ outs' = [outs EXCEPT ![k] = Append(@, get(schema, viewRes.val, it.start))]
                ELSE /\ its' = [its EXCEPT ![k] = Some([it EXCEPT !.ended = TRUE])]
                     /\ outs' = outs
  /\ UNCHANGED <<schema, pc, expanded, df, viewRes, ret>>

NextDerive == Derive \/ Rustc

Next == Derive \/ Rustc \/ CallView \/ CallGet

NextIter == Derive \/ Rustc \/ CallView \/ CallIter \/ IterNext

SpecDerive == InitDerive /\ [][NextDerive]_vars

Spec == Init /\ [][Next]_vars

SpecIter == InitIter /\ [][NextIter]_vars

(* ------------------------------------------------------------------ *)
(* Vocabulary of the properties                                        *)
(* ------------------------------------------------------------------ *)
Fields == 1..Len(schema)

SourceColumn(f) == IF f.name # None THEN f.name[1] ELSE f.ident

RecognisedNull(f) == f.null \in {None, Some("error"), Some("option"), Some("default")}

DeclaredError(f) == f.null \in {None, Some("error")}

DeclaredAsOptional(f) == f.null = Some("option")

DeclaredDefault(f) == f.null = Some("default")

Macro_Accepted == expanded.tag = "tokens"

ExpectedStorage(f) == MapPrim[f.ty.inner].expected_dtype

Present(f) == df.cols[SourceColumn(f)] # None

FieldPasses(f) == Present(f) /\ df.cols[SourceColumn(f)][1].dtype = ExpectedStorage(f)

CellAt(f, i) == df.cols[SourceColumn(f)][1].cells[i + 1]

ViewCalled == pc = "viewed"

ViewBuilt == pc = "viewed" /\ viewRes.tag = "Ok"

GetCalled == ViewBuilt /\ ret.res.tag # "NoCall"

GetInRange == GetCalled /\ ret.idx < df.height

NullErrorFields(i) == { k \in Fields : DeclaredError(schema[k]) /\ CellAt(schema[k], i) = None }

Least(S) == CHOOSE k \in S : \A j \in S : k <= j

(* The failure of get is that of some Error-policy field other than k. *)
FailureOfAnother(k) ==
  \E j \in NullErrorFields(ret.idx) \ {k} :
    ret.res = Err(InvalidNull(SourceColumn(schema[j]), ret.idx))

(* ------------------------------------------------------------------ *)
(* C1                                                                  *)
(* ------------------------------------------------------------------ *)

(* C1: a struct the derive accepts has, for every field with a recognised *)
(* null option, null="option" exactly when the declared type is Option<T>. *)
C1_OptionIffAsOptional ==
  Macro_Accepted =>
    \A k \in Fields :
      RecognisedNull(schema[k]) => (DeclaredAsOptional(schema[k]) <=> schema[k].ty.option)

(* ------------------------------------------------------------------ *)
(* C2                                                                  *)
(* ------------------------------------------------------------------ *)

(* C2: a struct the derive accepts has, for every field with a recognised *)
(* null option, a default exactly when the null option is "default".     *)
C2_DefaultIffDefaultPolicy ==
  Macro_Accepted =>
    \A k \in Fields :
      RecognisedNull(schema[k]) => (schema[k].default # None <=> DeclaredDefault(schema[k]))

(* ------------------------------------------------------------------ *)
(* C3                                                                  *)
(* ------------------------------------------------------------------ *)
WellFormed ==
  \A k \in Fields :
    /\ RecognisedNull(schema[k])
    /\ DeclaredAsOptional(schema[k]) <=> schema[k].ty.option
    /\ schema[k].default # None <=> DeclaredDefault(schema[k])
    /\ schema[k].ty.inner \in DOMAIN MapPrim

Satisfying ==
  \A k \in Fields :
    /\ FieldPasses(schema[k])
    /\ DeclaredError(schema[k]) => \A i \in 0..(df.height - 1) : CellAt(schema[k], i) # None

(* The value a field takes from a cell under the field's declared policy. *)
Materialised(f, cell) ==
  IF DeclaredAsOptional(f) THEN OptionMember(cell)
  ELSE IF cell # None THEN PlainMember(cell[1])
  ELSE PlainMember(f.default[1])

(* C3: a well-formed struct is usable (the derive and its expansion build), *)
(* view succeeds on every table that satisfies it, and get(i) succeeds for  *)
(* every row with each field holding the cell of its source column.        *)
C3_WellFormedRoundTrip ==
  WellFormed =>
    /\ pc \notin {"aborted", "rejected"}
    /\ (ViewCalled /\ Satisfying) => viewRes.tag = "Ok"
    /\ (GetInRange /\ Satisfying) =>
         /\ ret.res.tag = "Ok"
         /\ \A k \in Fields :
              ret.res.val[k] = Materialised(schema[k], CellAt(schema[k], ret.idx))

(* ------------------------------------------------------------------ *)
(* C4                                                                  *)
(* ------------------------------------------------------------------ *)

(* C4 as stated, for a table from which one required column was removed:   *)
(* when a field's source column is the only required column absent, view   *)
(* fails with MissingColumn naming that column, whatever the storage types *)
(* of the other fields' columns.                                           *)
C4_MissingColumnRegardless ==
  ViewCalled =>
    \A k \in Fields :
      ( /\ ~Present(schema[k])
        /\ \A j \in Fields :
             SourceColumn(schema[j]) # SourceColumn(schema[k]) => Present(schema[j]) )
      => viewRes = Err(MissingColumn(SourceColumn(schema[k])))

(* C4: whenever a field's source column is absent from the table, view     *)
(* fails; it fails with MissingColumn naming that column when every field  *)
(* earlier in schema order has its column present with the expected        *)
(* storage type, whatever the state of the later fields' columns.          *)
C4_MissingColumnFirstFailure ==
  ViewCalled =>
    \A k \in Fields :
      ~Present(schema[k]) =>
        /\ viewRes.tag = "Err"
        /\ (\A j \in 1..(k - 1) : FieldPasses(schema[j])) =>
             viewRes = Err(MissingColumn(SourceColumn(schema[k])))

(* A first field whose column is absent, followed by a field whose column *)
(* is present with the wrong storage type.                                *)
C4_Witness ==
  /\ ViewCalled
  /\ Len(schema) = 2
  /\ ~Present(schema[1])
  /\ Present(schema[2]) /\ ~FieldPasses(schema[2])
  /\ viewRes = Err(MissingColumn(SourceColumn(schema[1])))

(* ------------------------------------------------------------------ *)
(* C5                                                                  *)
(* ------------------------------------------------------------------ *)
FailingFields == { k \in Fields : ~FieldPasses(schema[k]) }

ExpectedViewError(f) ==
  IF ~Present(f) THEN MissingColumn(SourceColumn(f))
  ELSE WrongDtype(SourceColumn(f), ExpectedStorage(f), df.cols[SourceColumn(f)][1].dtype)

(* C5: view succeeds exactly when every field's column is present with the *)
(* catalog's storage type; otherwise it returns the error of the first     *)
(* failing field in schema order (MissingColumn, or WrongDtype carrying    *)
(* the expected and the column's actual storage type) and no View.         *)
C5_FirstFailingFieldError ==
  ViewCalled =>
    IF FailingFields = {}
      THEN viewRes.tag = "Ok"
      ELSE viewRes = Err(ExpectedViewError(schema[Least(FailingFields)]))

(* Two failing fields with different errors, the second one's not reported. *)
C5_Witness ==
  /\ ViewCalled
  /\ Len(schema) = 2
  /\ Present(schema[1]) /\ ~FieldPasses(schema[1])
  /\ ~Present(schema[2])
  /\ viewRes.tag = "Err"
  /\ viewRes.val.kind = "WrongDtype"

(* ------------------------------------------------------------------ *)
(* C6                                                                  *)
(* ------------------------------------------------------------------ *)

C7_AsOptionalMirrorsCell ==
  GetInRange =>
    \A k \in Fields :
      DeclaredAsOptional(schema[k]) =>
        /\ ret.res.tag \in {"Ok", "Err"}
        /\ ret.res.tag = "Err" => FailureOfAnother(k)
        /\ ret.res.tag = "Ok" =>
             ret.res.val[k] = OptionMember(CellAt(schema[k], ret.idx))

(* An AsOptional field read at a null cell, in a view that also has a row  *)
(* where the cell is not null.                                            *)
C7_Witness ==
  /\ GetInRange
  /\ \E k \in Fields :
       /\ DeclaredAsOptional(schema[k])
       /\ CellAt(schema[k], ret.idx) = None
       /\ \E j \in 0..(df.height - 1) : CellAt(schema[k], j) # None
       /\ ret.res.tag = "Ok"
       /\ ret.res.val[k] = OptionMember(None)

(* ------------------------------------------------------------------ *)
(* C8                                                                  *)
(* ------------------------------------------------------------------ *)

(* C8: for an accepted field with null="default" and default d, get(i),    *)
(* i < len(), fails only with the InvalidNull of another, Error-policy,    *)
(* field; when it succeeds the field is d if the cell at row i is null and *)
(* the cell's value if not.                                               *)
C8_DefaultFillsNulls ==
  GetInRange =>
    \A k \in Fields :
      (DeclaredDefault(schema[k]) /\ schema[k].default # None) =>
        /\ ret.res.tag \in {"Ok", "Err"}
        /\ ret.res.tag = "Err" => FailureOfAnother(k)
        /\ ret.res.tag = "Ok" =>
             ret.res.val[k] =
               PlainMember(IF CellAt(schema[k], ret.idx) = None
                             THEN schema[k].default[1]
                             ELSE CellAt(schema[k], ret.idx)[1])

(* ------------------------------------------------------------------ *)
(* C10                                                                 *)
(* ------------------------------------------------------------------ *)

(* C10 as stated: get(idx) with idx >= len() never returns Ok. *)
C10_OutOfRangeNeverOk ==
  (GetCalled /\ ret.idx >= df.height) => ret.res.tag # "Ok"

(* C10: on a view of a struct with at least one field, get(idx) with       *)
(* idx >= len() returns neither Ok nor Err: reading the first field's      *)
(* column panics, whatever the fields' null policies.                     *)
C10_OutOfRangePanics ==
  (GetCalled /\ ret.idx >= df.height /\ Len(schema) >= 1) => ret.res.tag = "Panic"

(* An out-of-range read of a non-empty table through fields none of which *)
(* has the Error policy.                                                  *)
C10_Witness ==
  /\ GetCalled
  /\ ret.idx >= df.height
  /\ df.height >= 1
  /\ Len(schema) = 2
  /\ \A k \in Fields : ~DeclaredError(schema[k])
  /\ \E k \in Fields : DeclaredDefault(schema[k])
  /\ \E k \in Fields : DeclaredAsOptional(schema[k])
  /\ ret.res.tag = "Panic"

(* ------------------------------------------------------------------ *)
(* C9                                                                  *)
(* ------------------------------------------------------------------ *)
Started(k) == its[k] # None

Exhausted(k) == Started(k) /\ its[k][1].ended

(* C9: what an iterator has yielded is get(0), get(1), ... in ascending    *)
(* order, never more than len() elements and exactly len() once it is      *)
(* exhausted; two iterators of the same view agree on every position both  *)
(* have reached, however far either was consumed, and the view is still    *)
(* the one that was built.                                                *)
C9_IterYieldsGetsInOrder ==
  ViewBuilt =>
    /\ \A k \in Slots :
         /\ ~Started(k) => outs[k] = <<>>
         /\ Started(k) =>
              /\ Len(outs[k]) <= df.height
              /\ \A j \in 1..Len(outs[k]) : outs[k][j] = get(schema, viewRes.val, j - 1)
              /\ Exhausted(k) => Len(outs[k]) = df.height
    /\ \A j \in 1..Len(outs[1]) : j <= Len(outs[2]) => outs[1][j] = outs[2][j]
    /\ viewRes.val.df = df
    /\ \A k \in Fields : viewRes.val.chunks[k] = df.cols[SourceColumn(schema[k])][1].cells

(* One iterator exhausted, having yielded an error followed by a row, while *)
(* a second one, obtained from the same view, has yielded only the error.  *)
C9_Witness ==
  /\ ViewBuilt
  /\ Exhausted(1)
  /\ Started(2) /\ ~Exhausted(2)
  /\ Len(outs[1]) = 2
  /\ outs[1][1].tag = "Err"
  /\ outs[1][2].tag = "Ok"
  /\ outs[2] = <<outs[1][1]>>

(* ------------------------------------------------------------------ *)
(* C11                                                                 *)
(* ------------------------------------------------------------------ *)

(* C11: every field of a struct the derive accepts has a null option that  *)
(* is omitted or one of "error", "option", "default"; a field with any     *)
(* other string is rejected by the derive, so none reaches row_build to be *)
(* materialised under a policy its author did not write.                  *)
C11_UnknownPolicyRejected ==
  Macro_Accepted => \A k \in Fields : RecognisedNull(schema[k])

====
